---- MODULE Spec2Model ----
(***************************************************************************)
(* A model of WinColl (rrthomas/wincoll): the tile grid, the player        *)
(* controller, the rock physics and the session loop of                    *)
(* src/wincoll/game.py, and the physics and move rules of                  *)
(* src/wincoll/wincoll_game.py.                                            *)
(*                                                                         *)
(* The Game object is a record (written s below); every method is an       *)
(* operator from records to records, composed in the order the code runs   *)
(* them.  Vector2 values are pairs in units of 1/subframes of a cell, so   *)
(* that Hero.update's quarter steps and int()'s truncation are exact.      *)
(***************************************************************************)
EXTENDS Integers, Sequences, FiniteSets, TLC

\* ------------------------------------------------------------------ bounds

\* Width and height of the level in blocks (50 x 50 in the program).
level_width == 3
level_height == 4

\* ------------------------------------------------------- program constants

subframes == 4

GAP == "gap"
BRICK == "brick"
SAFE == "safe"
DIAMOND == "diamond"
BLOB == "blob"
EARTH == "earth"
ROCK == "rock"
KEY == "key"
WIN == "win"

Tile == {GAP, BRICK, SAFE, DIAMOND, BLOB, EARTH, ROCK, KEY, WIN}

Cells == (0 .. level_width - 1) \X (0 .. level_height - 1)

\* ----------------------------------------------------------------- Vector2

\* Vector2(x, y) in 1/subframes units.
Vector2(x, y) == <<x * subframes, y * subframes>>

VAdd(a, b) == <<a[1] + b[1], a[2] + b[2]>>

VMul(a, k) == <<a[1] * k, a[2] * k>>

\* Python's int() of a float held in 1/subframes units: truncation toward 0.
int(q) == IF q >= 0 THEN q \div subframes ELSE -((-q) \div subframes)

\* The cell (x, y) that get and set address for a Vector2.
Cell(pos) == <<int(pos[1]), int(pos[2])>>

\* ------------------------------------------------------------- Python lists

\* lst[i] of a list of n items: a negative index counts from the end.
PyIndex(i, n) == IF i < 0 THEN i + n ELSE i

\* lst[i] raises IndexError outside -n .. n-1.
IndexError(i, n) == i >= n \/ i < -n

\* ----------------------------------------------------------------- variables

VARIABLES
    map_blocks,   \* Game.map_blocks: the grid, [Cells -> Tile]
    position,     \* Game.hero.position
    velocity,     \* Game.hero.velocity
    diamonds,     \* Game.diamonds
    dead,         \* Game.dead
    falling,      \* Game.falling
    SLIDE_SOUND,  \* whether SLIDE_SOUND (rock_sound in wincoll_game.py) plays
    level,        \* Game.level
    quit,         \* Game.quit
    saved,        \* SAVED_POSITION_FILE: whether it exists, and the grid in it
    crashed,      \* an uncaught exception has ended the program
    subframe,     \* run's local subframe
    pc,           \* where control is in main and run
    moves,        \* history: the falls of the latest physics pass, in order
    pass_hero,    \* history: the hero's cell in the latest physics pass
    moved,        \* history: what the latest tick's do_move acted on
    cmds,         \* history: the commands the latest tick's handle_input ran
    commands,     \* history: how many Load, Save and Restart commands have run
    variant,      \* history: the program whose physics pass ran latest
    turn,         \* history: whether the latest tick ran a physics pass, and
                  \* whether one has run since the latest do_move
    got,          \* history: the latest call of get made on its own
    levels_path   \* what the levels location holds when the program starts

vars == <<map_blocks, position, velocity, diamonds, dead, falling, SLIDE_SOUND,
          level, quit,
          saved, crashed, subframe, pc, moves, pass_hero, moved, cmds, commands,
          variant, turn, got, levels_path>>

\* The Game object (self) as a record; new_fall is rockfall's local and
\* moves collects the falls of a pass.
Self ==
    [map_blocks |-> map_blocks, position |-> position, velocity |-> velocity,
     diamonds |-> diamonds, dead |-> dead, falling |-> falling,
     SLIDE_SOUND |-> SLIDE_SOUND, level |-> level,
     quit |-> quit, saved |-> saved, crashed |-> crashed,
     new_fall |-> FALSE, moves |-> <<>>]

\* ------------------------------------------------------------- the tile grid

\* The value 0 of a cell of map_blocks that holds no tile.  Every other cell
\* holds the gid of a tile, written here as the tile's type.
missing == "missing"

\* What get_tile_properties returns for a gid that has no properties.
None == "None"

\* The exception that subscripting None raises.
TypeError == "TypeError"

\* tmx.get_tile_properties(x, y, 0), given as the type it holds: the
\* properties of the tile whose gid the cell holds, None for the gid 0.
get_tile_properties(s, x, y) ==
    IF s.map_blocks[<<x, y>>] = missing THEN None ELSE s.map_blocks[<<x, y>>]

\* Tile(props["type"]) of get's last line.
type_of(props) == IF props = None THEN TypeError ELSE props

\* get: line 181 reads the cell, lines 182-183 assign to the local block,
\* which line 184 does not read.
get(s, pos) ==
    LET x == int(pos[1])
        y == int(pos[2])
    IN  IF ~((0 <= x /\ x < level_width) /\ (0 <= y /\ y < level_height))
        THEN BRICK
        ELSE type_of(get_tile_properties(s, x, y))

\* set, had the write not reached the grid that get reads.
set_lost(s, pos, tile) == s

set(s, pos, tile) ==
    LET x == int(pos[1])
        y == int(pos[2])
    IN  IF s.crashed THEN s
        ELSE IF IndexError(y, level_height) \/ IndexError(x, level_width)
        THEN [s EXCEPT !.crashed = TRUE]
        ELSE [s EXCEPT !.map_blocks[<<PyIndex(x, level_width),
                                      PyIndex(y, level_height)>>] = tile]

\* --------------------------------------------------------- physics, game.py

\* can_roll, had it tested the cell beside the rock alone.
can_roll_beside(s, pos) == get(s, pos) = GAP

can_roll(s, pos) ==
    LET side_block == get(s, pos)
        side_below_block == get(s, VAdd(pos, Vector2(0, 1)))
    IN  side_block = GAP /\ side_below_block = GAP

\* rockfall's fall, had it left the rock in the cell it falls from.
fall_copying(s, oldpos, newpos) ==
    LET block_below == get(s, VAdd(newpos, Vector2(0, 1)))
        s1 == IF block_below = WIN THEN [s EXCEPT !.dead = TRUE] ELSE s
        s3 == set(s1, newpos, ROCK)
    IN  [s3 EXCEPT !.falling = TRUE, !.new_fall = TRUE,
                   !.SLIDE_SOUND = IF s.falling THEN @ ELSE TRUE,
                   !.moves = Append(@, <<Cell(oldpos), Cell(newpos)>>)]

\* fall, had it looked for the hero in the cell the rock lands on.
fall_on_hero(s, oldpos, newpos) ==
    LET block_below == get(s, newpos)
        s1 == IF block_below = WIN THEN [s EXCEPT !.dead = TRUE] ELSE s
        s2 == set(s1, oldpos, GAP)
        s3 == set(s2, newpos, ROCK)
    IN  [s3 EXCEPT !.falling = TRUE, !.new_fall = TRUE,
                   !.SLIDE_SOUND = IF s.falling THEN @ ELSE TRUE,
                   !.moves = Append(@, <<Cell(oldpos), Cell(newpos)>>)]

fall(s, oldpos, newpos) ==
    LET block_below == get(s, VAdd(newpos, Vector2(0, 1)))
        s1 == IF block_below = WIN THEN [s EXCEPT !.dead = TRUE] ELSE s
        s2 == set(s1, oldpos, GAP)
        s3 == set(s2, newpos, ROCK)
    IN  [s3 EXCEPT !.falling = TRUE, !.new_fall = TRUE,
                   !.SLIDE_SOUND = IF s.falling THEN @ ELSE TRUE,
                   !.moves = Append(@, <<Cell(oldpos), Cell(newpos)>>)]

\* rockfall's loop body, had a roll taken the rock to the side cell itself.
rockfall_cell_sideways(s, col, row) ==
    IF s.map_blocks[<<col, row>>] = ROCK
    THEN LET pos == Vector2(col, row)
             pos_below == VAdd(pos, Vector2(0, 1))
             block_below == get(s, pos_below)
         IN  IF block_below = GAP
             THEN fall(s, pos, pos_below)
             ELSE IF block_below \in {ROCK, KEY, DIAMOND, BLOB}
             THEN LET pos_left == VAdd(pos, Vector2(-1, 0))
                  IN  IF can_roll(s, pos_left)
                      THEN fall(s, pos, pos_left)
                      ELSE LET pos_right == VAdd(pos, Vector2(1, 0))
                           IN  IF can_roll(s, pos_right)
                               THEN fall(s, pos, pos_right)
                               ELSE s
             ELSE s
    ELSE s

\* rockfall's loop body, had a roll been tried to the right first.
rockfall_cell_right_first(s, col, row) ==
    IF s.map_blocks[<<col, row>>] = ROCK
    THEN LET pos == Vector2(col, row)
             pos_below == VAdd(pos, Vector2(0, 1))
             block_below == get(s, pos_below)
         IN  IF block_below = GAP
             THEN fall(s, pos, pos_below)
             ELSE IF block_below \in {ROCK, KEY, DIAMOND, BLOB}
             THEN LET pos_right == VAdd(pos, Vector2(1, 0))
                  IN  IF can_roll(s, pos_right)
                      THEN fall(s, pos, VAdd(pos_right, Vector2(0, 1)))
                      ELSE LET pos_left == VAdd(pos, Vector2(-1, 0))
                           IN  IF can_roll(s, pos_left)
                               THEN fall(s, pos, VAdd(pos_left, Vector2(0, 1)))
                               ELSE s
             ELSE s
    ELSE s

\* The body of rockfall's loops for one cell of the grid.
rockfall_cell(s, col, row) ==
    IF s.map_blocks[<<col, row>>] = ROCK
    THEN LET pos == Vector2(col, row)
             pos_below == VAdd(pos, Vector2(0, 1))
             block_below == get(s, pos_below)
         IN  IF block_below = GAP
             THEN fall(s, pos, pos_below)
             ELSE IF block_below \in {ROCK, KEY, DIAMOND, BLOB}
             THEN LET pos_left == VAdd(pos, Vector2(-1, 0))
                  IN  IF can_roll(s, pos_left)
                      THEN fall(s, pos, VAdd(pos_left, Vector2(0, 1)))
                      ELSE LET pos_right == VAdd(pos, Vector2(1, 0))
                           IN  IF can_roll(s, pos_right)
                               THEN fall(s, pos, VAdd(pos_right, Vector2(0, 1)))
                               ELSE s
             ELSE s
    ELSE s

\* rockfall's loops, had they taken the rows from the first to the last.
RECURSIVE rockfall_scan_down(_, _)
rockfall_scan_down(s, k) ==
    IF k = level_width * level_height THEN s
    ELSE rockfall_scan_down(rockfall_cell(s, k % level_width, k \div level_width),
                            k + 1)

\* rockfall's loops: rows from the last to the first, columns left to right;
\* k counts the cells already visited.
RECURSIVE rockfall_scan(_, _)
rockfall_scan(s, k) ==
    IF k = level_width * level_height THEN s
    ELSE rockfall_scan(rockfall_cell(s, k % level_width,
                                     level_height - 1 - (k \div level_width)),
                       k + 1)

\* The end of rockfall, had it left the flag of the pass before in place.
rockfall_end_kept(s) == s

\* rockfall's last lines (358-361), on the state s the loops leave.
rockfall_end(s) ==
    IF s.new_fall = FALSE
    THEN [s EXCEPT !.falling = FALSE, !.SLIDE_SOUND = FALSE] ELSE s

rockfall(s) == rockfall_end(rockfall_scan([s EXCEPT !.new_fall = FALSE], 0))

\* run, lines 432-436: the pass with the hero's cell marked.
physics(s) ==
    LET s1 == set(s, s.position, WIN)
        s2 == IF s1.crashed THEN s1 ELSE rockfall(s1)
    IN  set(s2, s.position, GAP)

\* ------------------------------------------------- physics, wincoll_game.py
\* wincoll_game.py names the tiles EMPTY and HERO where game.py has GAP and WIN.

finished(s) == s.diamonds = 0 \/ s.dead

\* rock_to_roll, had it let a rock roll off another rock alone.
rock_to_roll_off_rock(s, pos) ==
    get(s, pos) = ROCK /\ get(s, VAdd(pos, Vector2(0, 1))) = ROCK

rock_to_roll(s, pos) ==
    IF get(s, pos) = ROCK
    THEN LET block_below == get(s, VAdd(pos, Vector2(0, 1)))
         IN  block_below \in {ROCK, KEY, DIAMOND, BLOB}
    ELSE FALSE

\* update_map's fall, had it not asked whether the level is finished.
update_map_fall_always(s, oldpos, newpos) ==
    LET block_below == get(s, VAdd(newpos, Vector2(0, 1)))
        s1 == IF block_below = WIN THEN [s EXCEPT !.dead = TRUE] ELSE s
        s2 == set(s1, oldpos, GAP)
        s3 == set(s2, newpos, ROCK)
    IN  [s3 EXCEPT !.falling = TRUE, !.new_fall = TRUE,
                   !.SLIDE_SOUND = IF s.falling THEN @ ELSE TRUE,
                   !.moves = Append(@, <<Cell(oldpos), Cell(newpos)>>)]

update_map_fall(s, oldpos, newpos) ==
    LET block_below == get(s, VAdd(newpos, Vector2(0, 1)))
        s1 == IF block_below = WIN /\ ~finished(s)
              THEN [s EXCEPT !.dead = TRUE] ELSE s
        s2 == set(s1, oldpos, GAP)
        s3 == set(s2, newpos, ROCK)
    IN  [s3 EXCEPT !.falling = TRUE, !.new_fall = TRUE,
                   !.SLIDE_SOUND = IF s.falling THEN @ ELSE TRUE,
                   !.moves = Append(@, <<Cell(oldpos), Cell(newpos)>>)]

\* The body of update_map's loops for one cell of the grid.
update_map_cell(s, x, y) ==
    LET pos == Vector2(x, y)
        block == get(s, pos)
    IN  IF block = GAP
        THEN LET pos_above == VAdd(pos, Vector2(0, -1))
                 block_above == get(s, pos_above)
             IN  IF block_above = ROCK
                 THEN update_map_fall(s, pos_above, pos)
                 ELSE IF block_above = GAP
                 THEN LET pos_left == VAdd(pos_above, Vector2(-1, 0))
                      IN  IF rock_to_roll(s, pos_left)
                          THEN update_map_fall(s, pos_left, pos)
                          ELSE LET pos_right == VAdd(pos_above, Vector2(1, 0))
                               IN  IF rock_to_roll(s, pos_right)
                                   THEN update_map_fall(s, pos_right, pos)
                                   ELSE s
                 ELSE s
        ELSE s

\* update_map's loops, had they taken y from 1 up to level_height - 1.
RECURSIVE update_map_scan_down(_, _)
update_map_scan_down(s, k) ==
    IF k = level_width * (level_height - 1) THEN s
    ELSE update_map_scan_down(update_map_cell(s, k % level_width,
                                              1 + (k \div level_width)),
                              k + 1)

\* update_map's loops: y from level_height - 1 down to 1, x left to right;
\* k counts the cells already visited.
RECURSIVE update_map_scan(_, _)
update_map_scan(s, k) ==
    IF k = level_width * (level_height - 1) THEN s
    ELSE update_map_scan(update_map_cell(s, k % level_width,
                                         level_height - 1 - (k \div level_width)),
                         k + 1)

reset_falling(s) == [s EXCEPT !.falling = FALSE, !.SLIDE_SOUND = FALSE]

\* The end of update_map, had it left the falling flag as the loops leave it.
update_map_end_kept(s) == set(s, s.position, GAP)

\* update_map's last lines (192-195), on the state s the loops leave.
update_map_end(s) ==
    set(IF s.falling /\ s.new_fall = FALSE THEN reset_falling(s) ELSE s,
        s.position, GAP)

update_map(s) ==
    update_map_end(update_map_scan(set([s EXCEPT !.new_fall = FALSE],
                                       s.position, WIN), 0))

\* The body of init_game's loops for the cell (x, y).
init_game_cell(s, x, y) ==
    IF get(s, Vector2(x, y)) \in {DIAMOND, SAFE}
    THEN [s EXCEPT !.diamonds = @ + 1] ELSE s

\* init_game's loops: x outermost, y innermost; k counts the cells visited.
RECURSIVE init_game_scan(_, _)
init_game_scan(s, k) ==
    IF k = level_width * level_height THEN s
    ELSE init_game_scan(init_game_cell(s, k \div level_height, k % level_height),
                        k + 1)

\* init_game, had it counted on from the counter it finds.
init_game_counting_on(s) == init_game_scan([s EXCEPT !.dead = FALSE], 0)

\* init_game, on the state s that super().init_game() leaves.
init_game(s) == init_game_scan([s EXCEPT !.diamonds = 0, !.dead = FALSE], 0)

\* stop_play, had it left the falling flag and the sound as they are.
stop_play_sounding(s) == [s EXCEPT !.dead = FALSE]

stop_play(s) ==
    LET s1 == reset_falling(s)
    IN  IF s1.dead THEN [s1 EXCEPT !.dead = FALSE] ELSE s1

\* ------------------------------------------------------ counting the grid

\* The number of Diamond and Safe tiles of a grid.
Treasure(g) == Cardinality({c \in Cells : g[c] \in {DIAMOND, SAFE}})

\* ------------------------------------------------------------ the levels
\* The level files: each a grid with one WIN tile where the hero starts.
\* A cell outside a level's rows is BRICK.

num_levels == 2

LevelRows(n) ==
    IF n = 1
    THEN << <<BRICK,   ROCK, BRICK>>,
            <<BRICK,   GAP,  BRICK>>,
            <<DIAMOND, GAP,  BRICK>>,
            <<GAP,     WIN,  DIAMOND>> >>
    ELSE IF n = 2
    THEN << <<WIN,     EARTH, KEY>>,
            <<SAFE,    EARTH, SAFE>>,
            <<DIAMOND, BRICK, BRICK>> >>
    ELSE << <<WIN, DIAMOND>> >>

\* restart_level's map_data.tmx.layers[0].data for levels_files[n - 1].
LevelData(n) ==
    LET rows == LevelRows(n)
    IN  [c \in Cells |->
            IF c[2] + 1 <= Len(rows) /\ c[1] + 1 <= Len(rows[c[2] + 1])
            THEN rows[c[2] + 1][c[1] + 1]
            ELSE BRICK]

\* ------------------------------------------------------ game.py, the session

\* The body of survey's loops for the cell (x, y).
survey_cell(s, x, y) ==
    LET block == get(s, Vector2(x, y))
    IN  IF s.crashed THEN s
        ELSE IF block \in {DIAMOND, SAFE}
        THEN [s EXCEPT !.diamonds = @ + 1]
        ELSE IF block = WIN
        THEN set([s EXCEPT !.position = Vector2(x, y)], Vector2(x, y), GAP)
        ELSE s

\* survey's loops: x outermost, y innermost; k counts the cells visited.
RECURSIVE survey_scan(_, _)
survey_scan(s, k) ==
    IF k = level_width * level_height THEN s
    ELSE survey_scan(survey_cell(s, k \div level_height, k % level_height), k + 1)

\* survey, had it counted on from the counter it finds.
survey_counting_on(s) ==
    IF s.crashed THEN s
    ELSE survey_scan(s, 0)

survey(s) ==
    IF s.crashed THEN s
    ELSE survey_scan([s EXCEPT !.diamonds = 0], 0)

\* restart_level, had it written the saved position as start_level does.
restart_level_saving(s) ==
    IF s.crashed THEN s
    ELSE LET r == survey([s EXCEPT !.dead = FALSE,
                                   !.map_blocks = LevelData(s.level),
                                   !.velocity = Vector2(0, 0),
                                   !.position = Vector2(0, 0),
                                   !.diamonds = 0])
             s1 == set(r, r.position, WIN)
         IN  [s1 EXCEPT !.saved = [exists |-> TRUE, data |-> s1.map_blocks]]

restart_level(s) ==
    IF s.crashed THEN s
    ELSE survey([s EXCEPT !.dead = FALSE,
                          !.map_blocks = LevelData(s.level),
                          !.velocity = Vector2(0, 0),
                          !.position = Vector2(0, 0),
                          !.diamonds = 0])

save_position(s) ==
    LET s1 == set(s, s.position, WIN)
    IN  IF s1.crashed THEN s1
        ELSE [s1 EXCEPT !.saved = [exists |-> TRUE, data |-> s1.map_blocks]]

\* load_position, had it read the file without asking whether it exists.
load_position_unguarded(s) ==
    IF s.crashed THEN s
    ELSE survey([s EXCEPT !.map_blocks = s.saved.data])

load_position(s) ==
    IF s.crashed THEN s
    ELSE IF s.saved.exists
    THEN survey([s EXCEPT !.map_blocks = s.saved.data])
    ELSE s

start_level(s) == save_position(restart_level(s))

\* unlock's loop body, had it emptied the Safe.
unlock_cell_emptied(s, x, y) ==
    IF get(s, Vector2(x, y)) = SAFE THEN set(s, Vector2(x, y), GAP) ELSE s

\* The body of unlock's loops for the cell (x, y).
unlock_cell(s, x, y) ==
    IF get(s, Vector2(x, y)) = SAFE THEN set(s, Vector2(x, y), DIAMOND) ELSE s

RECURSIVE unlock_scan(_, _)
unlock_scan(s, k) ==
    IF k = level_width * level_height THEN s
    ELSE unlock_scan(unlock_cell(s, k \div level_height, k % level_height), k + 1)

unlock(s) == unlock_scan(s, 0)

\* ----------------------------------------------- game.py, the controller

\* can_move, had it let a rock be pushed along any axis.
can_move_any_axis(s, v) ==
    LET newpos == VAdd(s.position, v)
        block == get(s, newpos)
    IN  IF block \in {GAP, EARTH, DIAMOND, KEY} THEN TRUE
        ELSE IF block = ROCK
        THEN get(s, VAdd(s.position, VMul(v, 2))) = GAP
        ELSE FALSE

\* can_move, had it let a rock be pushed onto a Diamond as into a gap.
can_move_onto_diamond(s, v) ==
    LET newpos == VAdd(s.position, v)
        block == get(s, newpos)
    IN  IF block \in {GAP, EARTH, DIAMOND, KEY} THEN TRUE
        ELSE IF block = ROCK
        THEN LET new_rockpos == VAdd(s.position, VMul(v, 2))
             IN  v[2] = 0 /\ get(s, new_rockpos) \in {GAP, DIAMOND}
        ELSE FALSE

can_move(s, v) ==
    LET newpos == VAdd(s.position, v)
        block == get(s, newpos)
    IN  IF block \in {GAP, EARTH, DIAMOND, KEY} THEN TRUE
        ELSE IF block = ROCK
        THEN LET new_rockpos == VAdd(s.position, VMul(v, 2))
             IN  v[2] = 0 /\ get(s, new_rockpos) = GAP
        ELSE FALSE

\* do_move, had it left the tile it steps on in place.
do_move_keep(s) ==
    LET newpos == VAdd(s.position, s.velocity)
        block == get(s, newpos)
    IN  IF block = DIAMOND THEN [s EXCEPT !.diamonds = @ - 1]
        ELSE IF block = KEY THEN unlock(s)
        ELSE IF block = ROCK
        THEN set(s, VAdd(s.position, VMul(s.velocity, 2)), ROCK)
        ELSE s

do_move(s) ==
    LET newpos == VAdd(s.position, s.velocity)
        block == get(s, newpos)
        s1 == IF block = DIAMOND THEN [s EXCEPT !.diamonds = @ - 1]
              ELSE IF block = KEY THEN unlock(s)
              ELSE IF block = ROCK
              THEN set(s, VAdd(s.position, VMul(s.velocity, 2)), ROCK)
              ELSE s
    IN  IF s.crashed THEN s
        ELSE set(s1, VAdd(s.position, s.velocity), GAP)

\* wincoll_game.py, try_move(delta): ok is what it returns, game the object
\* it leaves.  Its KEY branch is the loop of unlock.
try_move(s, delta) ==
    LET newpos == VAdd(s.position, delta)
        block == get(s, newpos)
    IN  IF block \in {GAP, EARTH} THEN [ok |-> TRUE, game |-> s]
        ELSE IF block = DIAMOND
        THEN [ok |-> TRUE, game |-> [s EXCEPT !.diamonds = @ - 1]]
        ELSE IF block = KEY
        THEN [ok |-> TRUE, game |-> unlock(s)]
        ELSE IF block = ROCK
        THEN LET new_rockpos == VAdd(s.position, VMul(delta, 2))
             IN  IF delta[2] = 0 /\ get(s, new_rockpos) = GAP
                 THEN [ok |-> TRUE,
                       game |-> set(set(s, newpos, GAP), new_rockpos, ROCK)]
                 ELSE [ok |-> FALSE, game |-> s]
        ELSE [ok |-> FALSE, game |-> s]

\* The keys and joystick axes that handle_input reads: the direction
\* (dx, dy) they resolve to, and the l, s, r and q keys.
Inputs ==
    [dx : {-1, 0, 1}, dy : {-1, 0, 1}, l : BOOLEAN, s : BOOLEAN,
     r : BOOLEAN, q : BOOLEAN]

\* handle_input's direction, had the vertical intent been tried first.
input_direction_vertical_first(s, inp) ==
    IF inp.dy # 0 /\ can_move(s, Vector2(0, inp.dy))
    THEN [s EXCEPT !.velocity = Vector2(0, inp.dy)]
    ELSE IF inp.dx # 0 /\ can_move(s, Vector2(inp.dx, 0))
    THEN [s EXCEPT !.velocity = Vector2(inp.dx, 0)]
    ELSE s

\* handle_input, lines 273-276: the direction.
input_direction(s, inp) ==
    IF inp.dx # 0 /\ can_move(s, Vector2(inp.dx, 0))
    THEN [s EXCEPT !.velocity = Vector2(inp.dx, 0)]
    ELSE IF inp.dy # 0 /\ can_move(s, Vector2(0, inp.dy))
    THEN [s EXCEPT !.velocity = Vector2(0, inp.dy)]
    ELSE s

\* handle_input, lines 277-282: the l and s keys.
input_load_save(s, inp) ==
    IF inp.l THEN load_position(s)
    ELSE IF inp.s THEN save_position(s)
    ELSE s

\* handle_input, lines 283-285: the r key.
input_restart(s, inp) == IF inp.r THEN restart_level(s) ELSE s

\* handle_input, lines 286-287: the q key.
input_quit(s, inp) == IF inp.q /\ ~s.crashed THEN [s EXCEPT !.quit = TRUE] ELSE s

handle_input(s, inp) ==
    input_quit(input_restart(input_load_save(input_direction(s, inp), inp),
                             inp), inp)

\* Hero.update(dt) with dt = 1 / subframes.
update(s) ==
    IF s.crashed THEN s
    ELSE [s EXCEPT !.position = VAdd(@, <<s.velocity[1] \div subframes,
                                          s.velocity[2] \div subframes>>)]

\* ------------------------------------------------------- game.py, run's tick
\* One pass through the body of run's innermost loop (lines 415-445), with
\* the local subframe in sub and the keys held in inp.  The result is the
\* Game record with the new subframe and the record of what do_move met.

NoMove == [done |-> FALSE, valid |-> TRUE, block |-> GAP]

\* Lines 444-445, on the state s and the subframe sub that line 436 leaves.
tick_wrap(s, sub, passed, hero, met) ==
    [game |-> IF (sub + 1) % subframes = 0 /\ ~s.crashed
              THEN [s EXCEPT !.velocity = Vector2(0, 0)] ELSE s,
     subframe |-> IF s.crashed THEN sub ELSE (sub + 1) % subframes,
     passed |-> passed,
     pass_hero |-> hero,
     moved |-> met]

\* Lines 432-436, on the state s that line 431 leaves.
tick_physics(s, sub, met) ==
    tick_wrap(IF sub = subframes - 1 /\ ~s.crashed THEN physics(s) ELSE s,
              sub, sub = subframes - 1 /\ ~s.crashed, Cell(s.position), met)

\* Lines 428-431, had do_move left the subframe as it was.
tick_move_same_subframe(s, sub, idle) ==
    IF idle /\ ~s.crashed /\ s.velocity # Vector2(0, 0)
    THEN tick_physics(update(do_move(s)), sub,
                      [done |-> TRUE,
                       valid |-> can_move(s, s.velocity),
                       block |-> get(s, VAdd(s.position, s.velocity))])
    ELSE tick_physics(update(s), sub, NoMove)

\* Lines 428-431, had the quit flag been looked at before the move is applied.
tick_move_unless_quit(s, sub, idle) ==
    IF idle /\ ~s.crashed /\ s.velocity # Vector2(0, 0) /\ ~s.quit
    THEN tick_physics(update(do_move(s)), 0,
                      [done |-> TRUE,
                       valid |-> can_move(s, s.velocity),
                       block |-> get(s, VAdd(s.position, s.velocity))])
    ELSE tick_physics(update(s), sub, NoMove)

\* Lines 428-431, on the state s that line 427 leaves; idle is line 426's test.
tick_move(s, sub, idle) ==
    IF idle /\ ~s.crashed /\ s.velocity # Vector2(0, 0)
    THEN tick_physics(update(do_move(s)), 0,
                      [done |-> TRUE,
                       valid |-> can_move(s, s.velocity),
                       block |-> get(s, VAdd(s.position, s.velocity))])
    ELSE tick_physics(update(s), sub, NoMove)

\* One pass through the loop body, had handle_input been called in every tick.
tick_sampling_always(s, sub, inp) == tick_move(handle_input(s, inp), sub, TRUE)

tick(s, sub, inp) ==
    IF s.velocity = Vector2(0, 0)
    THEN tick_move(handle_input(s, inp), sub, TRUE)
    ELSE tick_move(s, sub, FALSE)

\* The Load, Save and Restart commands that handle_input runs for inp.
Commands(inp) ==
    (IF inp.l THEN {"load"} ELSE IF inp.s THEN {"save"} ELSE {})
    \cup (IF inp.r THEN {"restart"} ELSE {})

\* ------------------------------------------------------ the session's steps

\* How many Load, Save and Restart commands a behaviour may hold.
MaxCommands == 1

\* No call of get has been made on its own.
NoGet == [done |-> FALSE, pos |-> <<0, 0>>, tile |-> GAP]

NoSave == [exists |-> FALSE, data |-> [c \in Cells |-> GAP]]

\* A levels location with the level files of the model in it.
LevelsFound == [readable |-> TRUE, files |-> num_levels]

\* What the levels location may hold: it cannot be read, or it holds no
\* level file, or it holds the level files.
LevelsPaths ==
    {[readable |-> FALSE, files |-> 0], [readable |-> TRUE, files |-> 0],
     LevelsFound}

\* init_levels, had it gone on with a level set that is empty.
init_levels_unchecked(path) == ~path.readable

\* init_levels: TRUE if it ends in die, which leaves the program.
init_levels(path) ==
    IF ~path.readable THEN TRUE
    ELSE path.files = 0

Init ==
    /\ map_blocks = [c \in Cells |-> GAP]
    /\ position = Vector2(0, 0)
    /\ velocity = Vector2(0, 0)
    /\ diamonds = 0
    /\ dead = FALSE
    /\ falling = FALSE
    /\ SLIDE_SOUND = FALSE
    /\ level = 1
    /\ quit = FALSE
    /\ saved = NoSave
    /\ crashed = FALSE
    /\ subframe = 0
    /\ pc = "start"
    /\ moves = <<>>
    /\ pass_hero = <<0, 0>>
    /\ moved = NoMove
    /\ cmds = {}
    /\ commands = 0
    /\ variant = "none"
    /\ turn = [passed |-> FALSE, since_move |-> TRUE]
    /\ got = NoGet
    /\ levels_path \in LevelsPaths

\* The variables that hold the Game record t.
Becomes(t) ==
    /\ map_blocks' = t.map_blocks
    /\ position' = t.position
    /\ velocity' = t.velocity
    /\ diamonds' = t.diamonds
    /\ dead' = t.dead
    /\ falling' = t.falling
    /\ SLIDE_SOUND' = t.SLIDE_SOUND
    /\ level' = t.level
    /\ quit' = t.quit
    /\ saved' = t.saved
    /\ crashed' = t.crashed

history == <<moves, pass_hero, moved, cmds, commands, variant, turn, got,
             levels_path>>

\* main: game.run(level) with the level that instructions returned.
Run ==
    /\ pc \in {"main", "splurge"} /\ ~crashed
    /\ \E lv \in 1 .. num_levels :
          Becomes([Self EXCEPT !.quit = FALSE, !.level = lv])
    /\ pc' = "levels"
    /\ UNCHANGED <<subframe, history>>

\* The start of the program: init_levels, and on to main's loop unless it died.
InitLevels ==
    /\ pc = "start"
    /\ pc' = IF init_levels(levels_path) THEN "died" ELSE "main"
    /\ UNCHANGED <<map_blocks, position, velocity, diamonds, dead, falling,
                   SLIDE_SOUND, level,
                   quit, saved, crashed, subframe, history>>

\* run, line 403 true: start_level.  The history starts afresh with the level.
StartLevel ==
    /\ pc = "levels" /\ ~crashed
    /\ ~quit /\ level <= num_levels
    /\ Becomes(start_level(Self))
    /\ pc' = "lives"
    /\ moves' = <<>>
    /\ pass_hero' = <<0, 0>>
    /\ moved' = NoMove
    /\ cmds' = {}
    /\ variant' = "none"
    /\ UNCHANGED <<subframe, commands, turn, got, levels_path>>

\* run, line 403 false: the session is over; lines 464-465 show the game-won
\* screen (pc "splurge") or not (pc "main"), and main loops.
EndRun ==
    /\ pc = "levels" /\ ~crashed
    /\ ~(~quit /\ level <= num_levels)
    /\ pc' = IF level > num_levels THEN "splurge" ELSE "main"
    /\ UNCHANGED <<map_blocks, position, velocity, diamonds, dead, falling,
                   SLIDE_SOUND, level,
                   quit, saved, crashed, subframe, history>>

\* run, line 410 true: load_position, and the life starts at subframe 0.
StartLife ==
    /\ pc = "lives" /\ ~crashed
    /\ ~quit /\ diamonds > 0
    /\ Becomes(load_position(Self))
    /\ subframe' = 0
    /\ pc' = "ticks"
    /\ UNCHANGED history

\* run, lines 462-463, had the level gone up however the level ended.
next_level_always(s) == [s EXCEPT !.level = @ + 1]

\* run, lines 462-463: the level goes up if no diamonds remain.
next_level(s) == IF s.diamonds = 0 THEN [s EXCEPT !.level = @ + 1] ELSE s

\* run, line 410 false: lines 462-463.
EndLevel ==
    /\ pc = "lives" /\ ~crashed
    /\ ~(~quit /\ diamonds > 0)
    /\ Becomes(next_level(Self))
    /\ pc' = "levels"
    /\ UNCHANGED <<subframe, history>>

\* The state after a tick whose result is t and whose commands were ran.
AfterTick(t, ran) ==
    /\ Becomes(t.game)
    /\ subframe' = t.subframe
    /\ moves' = IF t.passed THEN t.game.moves ELSE moves
    /\ pass_hero' = IF t.passed THEN t.pass_hero ELSE pass_hero
    /\ variant' = IF t.passed THEN "game" ELSE variant
    /\ moved' = t.moved
    /\ turn' = [passed |-> t.passed,
                since_move |-> IF t.moved.done THEN FALSE
                               ELSE turn.since_move \/ t.passed]
    /\ cmds' = ran
    /\ commands' = commands + Cardinality(ran)
    /\ pc' = "ticks"
    /\ UNCHANGED <<got, levels_path>>

\* run, line 414 true and line 426 true: a tick that samples the input.
Tick ==
    /\ pc = "ticks" /\ ~crashed
    /\ ~quit /\ ~dead /\ diamonds > 0
    /\ velocity = Vector2(0, 0)
    /\ \E inp \in Inputs :
          /\ commands + Cardinality(Commands(inp)) <= MaxCommands
          /\ AfterTick(tick(Self, subframe, inp), Commands(inp))

NoInput == [dx |-> 0, dy |-> 0, l |-> FALSE, s |-> FALSE, r |-> FALSE, q |-> FALSE]

\* run, line 414 true and line 426 false: a tick of a move under way.
Substep ==
    /\ pc = "ticks" /\ ~crashed
    /\ ~quit /\ ~dead /\ diamonds > 0
    /\ velocity # Vector2(0, 0)
    /\ AfterTick(tick(Self, subframe, NoInput), {})

\* run, line 414 false: lines 446-461.  The local subframe is dead from here
\* to line 413, which sets it again.
EndLife ==
    /\ pc = "ticks" /\ ~crashed
    /\ ~(~quit /\ ~dead /\ diamonds > 0)
    /\ Becomes([Self EXCEPT !.dead = FALSE, !.SLIDE_SOUND = FALSE])
    /\ subframe' = 0
    /\ pc' = "lives"
    /\ UNCHANGED history

Next ==
    \/ InitLevels
    \/ Run \/ StartLevel \/ EndRun \/ StartLife \/ EndLevel \/ Tick \/ Substep
    \/ EndLife

Spec == Init /\ [][Next]_vars

\* ------------------------------------------- the physics pass on its own
\* Every grid of at most two rocks and at most one further tile, with the
\* hero on any empty cell; from it, the passes of one of the two programs.

NoCell == <<-1, -1>>

PhysicsGrid(r1, r2, oc, ok) ==
    [c \in Cells |-> IF c = r1 \/ c = r2 THEN ROCK ELSE IF c = oc THEN ok ELSE GAP]

InitPhysics ==
    /\ \E r1, r2 \in Cells \cup {NoCell}, oc \in Cells, ok \in Tile \ {ROCK, WIN} :
          map_blocks = PhysicsGrid(r1, r2, oc, ok)
    /\ \E h \in Cells : map_blocks[h] = GAP /\ position = Vector2(h[1], h[2])
    /\ velocity = Vector2(0, 0)
    /\ diamonds = Treasure(map_blocks)
    /\ dead = FALSE
    /\ falling = FALSE
    /\ SLIDE_SOUND = FALSE
    /\ level = 1
    /\ quit = FALSE
    /\ saved = NoSave
    /\ crashed = FALSE
    /\ subframe = 0
    /\ pc = "physics"
    /\ moves = <<>>
    /\ pass_hero = Cell(position)
    /\ moved = NoMove
    /\ cmds = {}
    /\ commands = 0
    /\ variant = "none"
    /\ turn = [passed |-> FALSE, since_move |-> TRUE]
    /\ got = NoGet
    /\ levels_path = LevelsFound

\* The state after a physics pass of program v that took Self to t.
AfterPass(t, v) ==
    /\ map_blocks' = t.map_blocks
    /\ dead' = t.dead
    /\ falling' = t.falling
    /\ SLIDE_SOUND' = t.SLIDE_SOUND
    /\ crashed' = t.crashed
    /\ moves' = t.moves
    /\ pass_hero' = Cell(position)
    /\ variant' = v
    /\ UNCHANGED <<position, velocity, diamonds, level, quit, saved, subframe,
                   pc, moved, cmds, commands, turn, got, levels_path>>

\* game.py: one pass as run makes it (lines 432-436), while the hero lives.
PassGame ==
    /\ pc = "physics"
    /\ variant \in {"none", "game"}
    /\ ~dead
    /\ AfterPass(physics(Self), "game")

\* wincoll_game.py: one update_map, while the hero lives.
PassWincoll ==
    /\ pc = "physics"
    /\ variant \in {"none", "wincoll"}
    /\ ~dead
    /\ AfterPass(update_map(Self), "wincoll")

NextPhysics == PassGame \/ PassWincoll

SpecPhysics == InitPhysics /\ [][NextPhysics]_vars

\* ------------------------------------------------------------ properties

Above(c) == <<c[1], c[2] - 1>>
Below(c) == <<c[1], c[2] + 1>>
Beside(c, dx) == <<c[1] + dx, c[2]>>
HeroCell == Cell(position)

\* An Empty cell as a pass sees it: a GAP that the hero does not stand on.
Open(c) == c \in Cells /\ map_blocks[c] = GAP /\ c # HeroCell

RocksOf(g) == {c \in Cells : g[c] = ROCK}

\* The pass of program v.
Pass(s, v) == IF v = "game" THEN physics(s) ELSE update_map(s)

\* The latest pass moved a rock from cell a to cell b.
Moved(a, b) == \E i \in 1 .. Len(moves) : moves[i] = <<a, b>>

\* A rock at c, a gap below it, and the hero below the gap.
CrushScene(c) ==
    /\ Below(Below(c)) \in Cells
    /\ map_blocks[c] = ROCK
    /\ map_blocks[Below(c)] = GAP
    /\ HeroCell = Below(Below(c))

\* C1, as the specification states it: in a pass from a rock two cells above
\* the hero with a gap between, the rock comes to rest on the cell above the
\* hero and the death flag is still false after that pass.
C1_DeathInSecondPass ==
    [][\A c \in Cells :
          CrushScene(c) => map_blocks'[Below(c)] = ROCK /\ dead' = FALSE]_vars

\* C1, as the code has it: the pass that brings the rock to the cell above the
\* hero is the pass that sets the death flag (rockfall always, update_map
\* while diamonds remain), and a further pass leaves rock and flag as they are.
C1_DeathAtLanding ==
    [][\A c \in Cells :
          CrushScene(c) =>
              /\ map_blocks'[Below(c)] = ROCK
              /\ map_blocks'[HeroCell] = GAP
              /\ \E i \in 1 .. Len(moves') : moves'[i] = <<c, Below(c)>>
              /\ dead' = (variant' = "game" \/ diamonds > 0)
              /\ LET again == Pass(Self', variant')
                 IN  /\ again.map_blocks[Below(c)] = ROCK
                     /\ \A i \in 1 .. Len(again.moves) :
                           again.moves[i][1] # Below(c)
                     /\ again.dead = dead']_vars

\* C1's case: rockfall has dropped a rock from two cells above the hero onto
\* the cell above the hero, and the hero is dead.
C1_Crushed ==
    /\ pc = "physics" /\ variant = "game" /\ dead
    /\ Moved(Above(Above(pass_hero)), Above(pass_hero))

\* A tick of run that made a physics pass: only the pass's tick wraps the
\* subframe to 0.
PassTick == pc = "ticks" /\ pc' = "ticks" /\ subframe' = 0 /\ ~crashed'

\* C2: a pass of the run loop sets the death flag if and only if it moved a
\* rock into the cell directly above the hero's cell.
C2_DeathIffLanding ==
    [][PassTick =>
          (dead' <=> \E i \in 1 .. Len(moves') :
                        moves'[i][2] = Above(pass_hero'))]_vars

\* C3: whenever a tick applied do_move, can_move(hero.velocity) held in the
\* grid and at the hero position that do_move acted on.
C3_MoveWasAccepted == moved.done => moved.valid

\* C4: at every tick boundary of the run loop the diamonds counter is the
\* number of Diamond and Safe tiles in the grid.
C4_CounterIsTreasure ==
    (pc = "ticks" /\ ~crashed) => diamonds = Treasure(map_blocks)

\* C5: at every tick boundary of the run loop no cell of the live grid holds
\* the hero's WIN tile.
C5_NoSentinel ==
    (pc = "ticks" /\ ~crashed) => \A c \in Cells : map_blocks[c] # WIN

\* C6: at every turn boundary, save_position followed at once by load_position
\* gives back the same grid, the same hero position and the same diamonds.
C6_RoundTrip ==
    (pc = "ticks" /\ ~crashed /\ velocity = Vector2(0, 0)) =>
        LET t == load_position(save_position(Self))
        IN  /\ ~t.crashed
            /\ t.map_blocks = map_blocks
            /\ t.position = position
            /\ t.diamonds = diamonds

\* A rock at c rests on a tile it can roll off, with a side to roll to.
RollApplies(c) ==
    /\ Below(c) \in Cells
    /\ map_blocks[Below(c)] \in {ROCK, KEY, DIAMOND, BLOB}
    /\ \E dx \in {-1, 1} : Open(Beside(c, dx)) /\ Open(Below(Beside(c, dx)))

\* C7: on a grid whose only rock has an Empty cell below it, a pass moves that
\* rock down exactly one cell and moves nothing else, so passes take it down
\* one row at a time; once the cell below is not Empty and no roll applies, a
\* pass leaves the grid as it is.
C7_OneRowPerPass ==
    [][\A c \in Cells :
          RocksOf(map_blocks) = {c} =>
              IF Open(Below(c))
              THEN /\ moves' = << <<c, Below(c)>> >>
                   /\ map_blocks' = [map_blocks EXCEPT ![c] = GAP,
                                                       ![Below(c)] = ROCK]
              ELSE ~RollApplies(c) => moves' = <<>> /\ map_blocks' = map_blocks]_vars

\* C7's case: the only rock has fallen one row in the latest pass and has an
\* Empty cell below it still, so that the next pass takes it a row further.
C7_Falling ==
    /\ pc = "physics"
    /\ \E c \in Cells :
          /\ RocksOf(map_blocks) = {c}
          /\ moves = << <<Above(c), c>> >>
          /\ c[2] >= 2
          /\ Open(Below(c))

\* Two rocks of one column, at c and lower at e, each with an Empty cell
\* below and only Empty cells between them.
Chain(c, e) ==
    /\ c[1] = e[1] /\ c[2] + 2 <= e[2]
    /\ map_blocks[c] = ROCK /\ map_blocks[e] = ROCK
    /\ \A y \in c[2] + 1 .. e[2] - 1 : Open(<<c[1], y>>)
    /\ Open(Below(e))

\* C8: two rocks of one column with an Empty row between them and an Empty
\* cell below each both end a pass exactly one row lower: each is moved once,
\* straight down, and the upper one is not moved again into the cell the lower
\* one left.
C8_ChainFallsOneRow ==
    [][\A c, e \in Cells :
          Chain(c, e) =>
              /\ map_blocks'[Below(c)] = ROCK /\ map_blocks'[Below(e)] = ROCK
              /\ \A i \in 1 .. Len(moves') :
                    /\ moves'[i][1] = c => moves'[i][2] = Below(c)
                    /\ moves'[i][1] = e => moves'[i][2] = Below(e)
                    /\ moves'[i][1] # Below(c)
                    /\ moves'[i][1] # Below(e)
              /\ \E i, j \in 1 .. Len(moves') :
                    moves'[i][1] = c /\ moves'[j][1] = e]_vars

\* C8's case: a pass has taken two rocks of one column, two rows apart, one
\* row down each.
C8_ChainFell ==
    /\ pc = "physics"
    /\ \E c \in Cells :
          /\ Moved(c, Below(c))
          /\ Moved(Below(Below(c)), Below(Below(Below(c))))
          /\ map_blocks[Below(c)] = ROCK
          /\ map_blocks[Below(Below(c))] = GAP

Dirs == {<<1, 0>>, <<-1, 0>>, <<0, 1>>, <<0, -1>>}

Step(c, d, n) == <<c[1] + n * d[1], c[2] + n * d[2]>>

\* The tile of the grid at c; no tile outside the grid.
TileAt(c) == IF c \in Cells THEN map_blocks[c] ELSE "outside"

\* C9: for every unit direction d, can_move(d) is true exactly when the tile
\* at the destination is Empty, Earth, Diamond or Key, or it is a Rock, d is
\* horizontal and the cell two steps along d is Empty; try_move accepts the
\* same moves.
C9_AcceptedMoves ==
    \A d \in Dirs :
        LET dest == TileAt(Step(HeroCell, d, 1))
            far == TileAt(Step(HeroCell, d, 2))
            accepted == \/ dest \in {GAP, EARTH, DIAMOND, KEY}
                        \/ dest = ROCK /\ d[2] = 0 /\ far = GAP
        IN  /\ can_move(Self, Vector2(d[1], d[2])) = accepted
            /\ try_move(Self, Vector2(d[1], d[2])).ok = accepted

\* C9's case: the hero stands beside a rock it may push and below or above a
\* rock it may not, though a gap lies beyond that one too.
C9_PushOffered ==
    /\ \E d \in {<<1, 0>>, <<-1, 0>>} :
          /\ TileAt(Step(HeroCell, d, 1)) = ROCK
          /\ can_move(Self, Vector2(d[1], d[2]))
    /\ \E d \in {<<0, 1>>, <<0, -1>>} :
          /\ TileAt(Step(HeroCell, d, 1)) = ROCK
          /\ TileAt(Step(HeroCell, d, 2)) = GAP
          /\ ~can_move(Self, Vector2(d[1], d[2]))

\* C10: from every tick boundary and for every direction d that can_move
\* accepts, do_move takes one off the diamonds counter if the destination is
\* a Diamond, turns every Safe into a Diamond if it is a Key, puts a Rock one
\* cell further if it is a Rock, leaves the destination Empty, and changes no
\* other cell and nothing else of the game.
C10_MoveEffects ==
    (pc = "ticks" /\ ~crashed /\ velocity = Vector2(0, 0)) =>
        \A d \in Dirs :
            can_move(Self, Vector2(d[1], d[2])) =>
                LET s == [Self EXCEPT !.velocity = Vector2(d[1], d[2])]
                    t == do_move(s)
                    dest == Step(HeroCell, d, 1)
                    far == Step(HeroCell, d, 2)
                    block == TileAt(dest)
                IN  /\ t.diamonds = IF block = DIAMOND THEN diamonds - 1 ELSE diamonds
                    /\ t.map_blocks =
                         [c \in Cells |->
                            IF c = dest THEN GAP
                            ELSE IF block = ROCK /\ c = far THEN ROCK
                            ELSE IF block = KEY /\ map_blocks[c] = SAFE THEN DIAMOND
                            ELSE map_blocks[c]]
                    /\ [t EXCEPT !.diamonds = 0, !.map_blocks = map_blocks] =
                       [s EXCEPT !.diamonds = 0]

\* C10's case: run has applied do_move to an accepted move onto a Key while a
\* Safe was in the grid, and the grid holds no Safe now.
C10_KeyTaken ==
    /\ pc = "ticks" /\ ~crashed
    /\ moved.done /\ moved.valid /\ moved.block = KEY
    /\ \A c \in Cells : map_blocks[c] # SAFE
    /\ diamonds = 3


\* C11: unlock leaves the number of Diamond and Safe tiles and the diamonds
\* counter as they were, turns every Safe into a Diamond in place, leaves no
\* Safe and changes nothing else; try_move onto a Key does the same.
C11_UnlockKeepsTreasure ==
    (pc = "ticks" /\ ~crashed) =>
        LET t == unlock(Self)
        IN  /\ Treasure(t.map_blocks) = Treasure(map_blocks)
            /\ t.diamonds = diamonds
            /\ \A c \in Cells :
                  /\ t.map_blocks[c] # SAFE
                  /\ t.map_blocks[c] =
                       IF map_blocks[c] = SAFE THEN DIAMOND ELSE map_blocks[c]
            /\ [t EXCEPT !.map_blocks = map_blocks] = Self
            /\ \A d \in Dirs :
                  TileAt(Step(HeroCell, d, 1)) = KEY =>
                      /\ try_move(Self, Vector2(d[1], d[2])).ok
                      /\ try_move(Self, Vector2(d[1], d[2])).game = t

\* C11's case: the hero has stepped onto a Key, and a cell that held a Safe
\* when the level began holds a Diamond.
C11_Unlocked ==
    /\ pc = "ticks" /\ ~crashed
    /\ moved.done /\ moved.block = KEY
    /\ \E c \in Cells :
          LevelData(level)[c] = SAFE /\ map_blocks[c] = DIAMOND


\* C12: across a tick of play that runs no Load and no Restart, the number of
\* Diamond and Safe tiles in the grid goes down by one if the hero moved onto
\* a Diamond in that tick and is unchanged otherwise.
C12_TreasureOnlyTaken ==
    [][(/\ pc = "ticks" /\ pc' = "ticks" /\ ~crashed'
        /\ cmds' \cap {"load", "restart"} = {}) =>
          Treasure(map_blocks') =
              Treasure(map_blocks)
                  - (IF moved'.done /\ moved'.block = DIAMOND THEN 1 ELSE 0)]_vars

\* C12's case: a tick with no command has moved the hero onto a Diamond and
\* treasure remains in the grid.
C12_DiamondTaken ==
    /\ pc = "ticks" /\ ~crashed
    /\ cmds = {} /\ moved.done /\ moved.block = DIAMOND
    /\ Treasure(map_blocks) >= 1
    /\ Treasure(map_blocks) < Treasure(LevelData(level))


\* A tick of run's innermost loop that ran to its end.
TickStep == pc = "ticks" /\ pc' = "ticks" /\ ~crashed'

\* handle_input is about to be sampled: the life goes on and the hero is idle.
Sampling ==
    /\ pc = "ticks" /\ ~crashed
    /\ ~quit /\ ~dead /\ diamonds > 0
    /\ velocity = Vector2(0, 0)

\* C13, as the specification states it: whenever handle_input is sampled, a
\* rockfall pass has run since the latest move that do_move applied.
C13_PassAfterEveryMove == Sampling => turn.since_move

\* C13, as the code has it: a pass runs only in a tick that begins at
\* subframe 3 and applies no move, and it ends the move under way; a tick that
\* applies a move runs no pass and leaves the move under way at subframe 1;
\* while a move is under way no input is sampled and no pass has run since it
\* was applied; and the life ends with a move under way, so with no pass
\* after it, only if that move took the last Diamond or Q was held with it.
C13_TurnTiming ==
    /\ [][TickStep =>
            /\ turn'.passed => subframe = subframes - 1 /\ ~moved'.done
            /\ turn'.passed => velocity' = Vector2(0, 0) /\ subframe' = 0
            /\ moved'.done => /\ ~turn'.passed
                              /\ velocity' # Vector2(0, 0)
                              /\ subframe' = 1
            /\ velocity # Vector2(0, 0) =>
                  /\ ~moved'.done /\ cmds' = {}
                  /\ turn'.passed <=> velocity' = Vector2(0, 0)
                  /\ subframe' = (subframe + 1) % subframes]_vars
    /\ [][(pc = "ticks" /\ pc' = "lives" /\ velocity # Vector2(0, 0)) =>
            /\ moved.done /\ subframe = 1
            /\ quit \/ (diamonds = 0 /\ moved.block = DIAMOND)]_vars
    /\ []((pc = "ticks" /\ ~crashed /\ velocity # Vector2(0, 0)) =>
            ~turn.since_move /\ subframe \in 1 .. subframes - 1)

\* C13's case: the pass that ends a move has just run, the hero is off the
\* cell the level started it on, and input is about to be sampled again.
C13_MoveThenPass ==
    /\ Sampling
    /\ turn.passed /\ turn.since_move /\ subframe = 0
    /\ LevelData(level)[HeroCell] # WIN


\* The S key alone.
SaveKey == [NoInput EXCEPT !.s = TRUE]

\* The grid g with the cell the hero stands on read as a gap.
Around(g, h) == [c \in Cells |-> IF c = h THEN GAP ELSE g[c]]

\* C14: when a tick that saves the position also sets the death flag, the
\* load_position that follows the death brings back the grid (but for the
\* hero's own cell), the hero position and the diamonds counter that were
\* saved, at the same level and with the death flag cleared.
C14_DeathRestoresSave ==
    Sampling =>
        LET t == tick(Self, subframe, SaveKey).game
            back == load_position([t EXCEPT !.dead = FALSE])
        IN  t.dead =>
                /\ ~back.dead /\ back.level = level
                /\ back.map_blocks = Around(map_blocks, HeroCell)
                /\ back.position = position
                /\ back.diamonds = diamonds


\* C15: after every physics pass, of rockfall and of update_map alike, the
\* falling flag is TRUE if a rock moved in that pass and FALSE if none did,
\* whether the flag was set or clear before the pass.
C15_FallingIsMoved ==
    [][pc = "physics" =>
          /\ falling => (falling' <=> moves' # <<>>)
          /\ ~falling => (falling' <=> moves' # <<>>)]_vars

\* C15's case: a pass of rockfall has run in which no rock moved, with rocks
\* in the grid, and the flag is clear.
C15_Settled ==
    /\ pc = "physics" /\ variant = "game"
    /\ RocksOf(map_blocks) # {}
    /\ moves = <<>> /\ ~falling


\* ------------------------------------------------ load_position on its own

\* The states load_position is applied to: a grid of the family with at most
\* one rock, the hero on a gap of it, alive or dead, at any level, and the
\* saved-position file absent or holding the opening position of a level.
InitLoad ==
    /\ \E r1 \in Cells \cup {NoCell}, oc \in Cells, ok \in {DIAMOND, SAFE, KEY} :
          map_blocks = PhysicsGrid(r1, NoCell, oc, ok)
    /\ \E h \in Cells : map_blocks[h] = GAP /\ position = Vector2(h[1], h[2])
    /\ velocity = Vector2(0, 0)
    /\ diamonds = Treasure(map_blocks)
    /\ dead \in BOOLEAN
    /\ falling = FALSE
    /\ SLIDE_SOUND = FALSE
    /\ level \in 1 .. num_levels
    /\ quit = FALSE
    /\ saved \in {NoSave} \cup {[exists |-> TRUE, data |-> LevelData(n)] :
                                  n \in 1 .. num_levels}
    /\ crashed = FALSE
    /\ subframe = 0
    /\ pc = "load"
    /\ moves = <<>>
    /\ pass_hero = Cell(position)
    /\ moved = NoMove
    /\ cmds = {}
    /\ commands = 0
    /\ variant = "none"
    /\ turn = [passed |-> FALSE, since_move |-> TRUE]
    /\ got = NoGet
    /\ levels_path = LevelsFound

\* game.py: one call of load_position.
LoadPosition ==
    /\ pc = "load"
    /\ Becomes(load_position(Self))
    /\ pc' = "loaded"
    /\ cmds' = {"load"}
    /\ UNCHANGED <<subframe, moves, pass_hero, moved, commands, variant, turn,
                   got, levels_path>>

NextLoad == LoadPosition

SpecLoad == InitLoad /\ [][NextLoad]_vars

\* --------------------------------------------------------- get on its own

\* The states get is applied to: a grid of gaps with one cell that holds a
\* tile or no tile at all, and the hero on a gap of it.
InitGet ==
    /\ \E oc \in Cells, ok \in (Tile \ {GAP, WIN}) \cup {missing} :
          map_blocks = PhysicsGrid(NoCell, NoCell, oc, ok)
    /\ \E h \in Cells : map_blocks[h] = GAP /\ position = Vector2(h[1], h[2])
    /\ velocity = Vector2(0, 0)
    /\ diamonds = Treasure(map_blocks)
    /\ dead = FALSE
    /\ falling = FALSE
    /\ SLIDE_SOUND = FALSE
    /\ level = 1
    /\ quit = FALSE
    /\ saved = NoSave
    /\ crashed = FALSE
    /\ subframe = 0
    /\ pc = "get"
    /\ moves = <<>>
    /\ pass_hero = Cell(position)
    /\ moved = NoMove
    /\ cmds = {}
    /\ commands = 0
    /\ variant = "none"
    /\ turn = [passed |-> FALSE, since_move |-> TRUE]
    /\ got = NoGet
    /\ levels_path = LevelsFound

\* game.py: one call of get, at a cell of the grid or one step outside it.
\* A TypeError that get raises ends the program.
Get ==
    /\ pc = "get" /\ ~crashed
    /\ \E x \in -1 .. level_width, y \in -1 .. level_height :
          LET tile == get(Self, Vector2(x, y))
          IN  /\ got' = [done |-> TRUE, pos |-> <<x, y>>, tile |-> tile]
              /\ crashed' = (tile = TypeError)
    /\ UNCHANGED <<map_blocks, position, velocity, diamonds, dead, falling,
                   SLIDE_SOUND, level,
                   quit, saved, subframe, pc, moves, pass_hero, moved, cmds,
                   commands, variant, turn, levels_path>>

NextGet == Get

SpecGet == InitGet /\ [][NextGet]_vars

\* The grid g with the hero's cell h marked, as a pass sees it.
Marked(g, h) == [c \in Cells |-> IF c = h THEN WIN ELSE g[c]]

\* The tile of grid g at c, where c may lie outside the grid.
At(g, c) == IF c \in Cells THEN g[c] ELSE "outside"

RECURSIVE GridAfter(_, _, _)
\* The grid g after the first n of the rock moves ms.
GridAfter(g, ms, n) ==
    IF n = 0 THEN g
    ELSE LET h == GridAfter(g, ms, n - 1)
         IN  [h EXCEPT ![ms[n][1]] = GAP, ![ms[n][2]] = ROCK]

\* In grid g the rock at a may go to b: straight down into a gap, or off a
\* Rock, Key, Diamond or Blob to a side whose cell and cell below are gaps.
Eligible(g, a, b) ==
    /\ At(g, a) = ROCK
    /\ \/ b = Below(a) /\ At(g, b) = GAP
       \/ /\ At(g, Below(a)) \in {ROCK, KEY, DIAMOND, BLOB}
          /\ \E dx \in {-1, 1} :
                /\ b = Below(Beside(a, dx))
                /\ At(g, Beside(a, dx)) = GAP
                /\ At(g, b) = GAP

\* C16: every rock move of a physics pass, of rockfall and of update_map
\* alike, is a straight fall into an Empty cell or a roll off a Rock, Key,
\* Diamond or Blob to a side whose adjacent and below-adjacent cells are Empty,
\* in the grid as it stands when the rock moves; and a rock that the pass
\* finds above Brick, Earth, Safe, the hero's cell or the bottom edge does not
\* move in that pass.
C16_RollEligibility ==
    [][pc = "physics" =>
          LET g0 == Marked(map_blocks, HeroCell)
          IN  /\ \A i \in 1 .. Len(moves') :
                    Eligible(GridAfter(g0, moves', i - 1),
                             moves'[i][1], moves'[i][2])
              /\ \A c \in RocksOf(map_blocks) :
                    At(g0, Below(c)) \in {BRICK, EARTH, SAFE, WIN, "outside"}
                        => \A i \in 1 .. Len(moves') : moves'[i][1] # c]_vars

\* C16's case: a pass has rolled a rock to the side, off a Diamond.
C16_Rolled ==
    /\ pc = "physics" /\ variant # "none"
    /\ \E i \in 1 .. Len(moves) :
          /\ moves[i][2][1] # moves[i][1][1]
          /\ map_blocks[Below(moves[i][1])] = DIAMOND


C18_LevelProgression ==
    /\ [][(level' # level /\ ~(pc \in {"main", "splurge"})) =>
            /\ level' = level + 1 /\ diamonds = 0
            /\ pc = "lives" /\ pc' = "levels"]_vars
    /\ [][pc = "ticks" => level' = level]_vars
    /\ [][(pc = "levels" /\ pc' = "lives") =>
            ~quit /\ level <= num_levels]_vars
    /\ [][(pc = "levels" /\ pc' \in {"main", "splurge"}) =>
            quit \/ level > num_levels]_vars
    /\ [](pc = "splurge" => level > num_levels)

\* C18's case: the last level has been cleared and the game-won screen shows.
C18_Won == pc = "splurge" /\ level = num_levels + 1 /\ diamonds = 0 /\ ~quit


\* C19: a call of load_position with no saved-position file leaves the grid,
\* the hero position, the diamonds counter, the death flag and the level index
\* as they were and raises no error.
C19_LoadWithoutFile ==
    [][(pc = "load" /\ ~saved.exists) =>
          /\ map_blocks' = map_blocks
          /\ position' = position
          /\ diamonds' = diamonds
          /\ dead' = dead
          /\ level' = level
          /\ ~crashed']_vars

\* C19's case: load_position has run with no file, on a grid that holds
\* treasure and with the death flag set.
C19_Loaded ==
    /\ pc = "loaded" /\ cmds = {"load"}
    /\ ~saved.exists
    /\ dead /\ diamonds > 0


\* C20: a call of get returns Brick for a position outside the grid, Empty
\* for a cell of the grid that holds no tile, and for any other cell the kind
\* of the tile the cell holds.
C20_GetOfCell ==
    got.done =>
        IF got.pos \notin Cells THEN got.tile = BRICK
        ELSE IF map_blocks[got.pos] = missing THEN got.tile = GAP
        ELSE got.tile = map_blocks[got.pos]


\* The positions one step around the grid and inside it.
Positions == (-1 .. level_width) \X (-1 .. level_height)

C22_SurveyIdempotent ==
    (pc \in {"lives", "ticks"} /\ ~crashed) =>
        LET once == survey(Self)
            twice == survey(once)
        IN  /\ ~twice.crashed
            /\ twice.diamonds = once.diamonds
            /\ twice.position = once.position
            /\ twice.map_blocks = once.map_blocks

\* C22's case: the grid holds treasure and a hero tile away from the hero, so
\* that the first survey counts, moves the hero and clears the tile.
C22_SurveyActs ==
    /\ pc = "ticks" /\ ~crashed
    /\ \E c \in Cells : map_blocks[c] = WIN /\ c # HeroCell
    /\ LET once == survey(Self)
       IN  /\ once.position # position
           /\ once.map_blocks # map_blocks
           /\ once.diamonds > 0


\* The keys inp with Q let go.
WithoutQ(inp) == [inp EXCEPT !.q = FALSE]

\* C23: quit is set only by a tick that samples the input; that tick leaves
\* the grid, the hero, the counter, the flags and the subframe exactly as a
\* tick with the same commands and Q not held would have (its move and its
\* physics pass are applied whole); and from then until run returns no tick, no load_position
\* and no start_level runs: the grid, the hero, the counter, the death flag
\* and the saved position stay as they are, but for the level index, which
\* goes up if that tick took the last diamond.
C23_QuitBetweenTicks ==
    /\ [][(quit' /\ ~quit /\ ~crashed') =>
            /\ pc = "ticks" /\ pc' = "ticks" /\ velocity = Vector2(0, 0)
            /\ \E inp \in Inputs :
                  /\ inp.q /\ Commands(inp) = cmds'
                  /\ LET t == tick(Self, subframe, WithoutQ(inp))
                     IN  /\ ~t.game.quit
                         /\ map_blocks' = t.game.map_blocks
                         /\ position' = t.game.position
                         /\ velocity' = t.game.velocity
                         /\ diamonds' = t.game.diamonds
                         /\ dead' = t.game.dead
                         /\ falling' = t.game.falling
                         /\ saved' = t.game.saved
                         /\ subframe' = t.subframe
                         /\ moved' = t.moved]_vars
    /\ [][(quit /\ pc \in {"ticks", "lives", "levels"}) =>
            /\ pc' \in (IF pc = "ticks" THEN {"lives"}
                        ELSE IF pc = "lives" THEN {"levels"}
                        ELSE {"main", "splurge"})
            /\ UNCHANGED <<map_blocks, position, velocity, diamonds, saved,
                           moves, moved, cmds, quit>>
            /\ dead' = (IF pc = "ticks" THEN FALSE ELSE dead)]_vars

\* C23's case: the tick that set quit also moved the hero onto a Diamond, and
\* the loop of ticks has not been left yet.
C23_QuitWithMove ==
    /\ pc = "ticks" /\ ~crashed
    /\ quit /\ moved.done /\ moved.block = DIAMOND
    /\ velocity # Vector2(0, 0)


\* The velocities of a hero at rest or moving one cell along an axis.
AxisVelocities == {Vector2(0, 0)} \cup {Vector2(d[1], d[2]) : d \in Dirs}

\* C24: the hero's velocity is in every state zero or one cell along one axis;
\* and whenever the input is sampled, with any directions held and L held or
\* not, handle_input leaves the horizontal direction asked for if can_move accepts it, else the
\* vertical direction asked for if can_move accepts it, else zero.
C24_AxisVelocity ==
    /\ velocity \in AxisVelocities
    /\ Sampling =>
          \A inp \in Inputs :
              (~inp.r /\ ~inp.s /\ ~inp.q) =>
                  handle_input(Self, inp).velocity =
                      IF inp.dx # 0 /\ can_move(Self, Vector2(inp.dx, 0))
                      THEN Vector2(inp.dx, 0)
                      ELSE IF inp.dy # 0 /\ can_move(Self, Vector2(0, inp.dy))
                      THEN Vector2(0, inp.dy)
                      ELSE Vector2(0, 0)

\* C24's case: a vertical move is under way from a cell whose neighbours to
\* the left and to the right both refuse the hero, so that a horizontal
\* intent held with it was passed over.
C24_VerticalTaken ==
    /\ pc = "ticks" /\ ~crashed /\ cmds = {}
    /\ moved.done /\ subframe = 1
    /\ velocity[1] = 0 /\ velocity[2] # 0
    /\ LET from == Cell(VAdd(position, <<0, -(velocity[2] \div subframes)>>))
       IN  \A dx \in {-1, 1} : TileAt(Beside(from, dx)) \in {BRICK, SAFE, "outside"}


\* C25: if the levels location cannot be read or holds no level file, the
\* program goes from its start to die and nowhere else: no run, no level and
\* no tick is ever started (the grid, the saved position and every record of
\* play stay as they were at the start), and nothing follows die.
C25_FatalAtStartup ==
    /\ []((~levels_path.readable \/ levels_path.files = 0) =>
            /\ pc \in {"start", "died"}
            /\ saved = NoSave /\ ~moved.done /\ ~turn.passed
            /\ moves = <<>> /\ cmds = {} /\ commands = 0
            /\ map_blocks = [c \in Cells |-> GAP])
    /\ [][pc = "start" =>
            (pc' = "died" <=> (~levels_path.readable \/ levels_path.files = 0))]_vars
    /\ [][pc # "died"]_vars

\* C25's case: the levels location was readable but held no level file, and
\* the program has died.
C25_DiedOnEmpty == pc = "died" /\ levels_path.readable /\ levels_path.files = 0


\* The tiles that a physics pass leaves where they are.
Fixed == {BRICK, SAFE, DIAMOND, BLOB, EARTH, KEY}

\* C26: a physics pass, of rockfall and of update_map alike, leaves every
\* Brick, Safe, Diamond, Blob, Earth and Key where it was and puts none
\* anywhere else, keeps the number of rocks, moves each rock only into a cell
\* that is Empty at that moment (never the hero's cell), sends no two rocks
\* to the same cell, and leaves the hero's cell Empty again.
C26_OnlyRocksMove ==
    [][pc = "physics" =>
          LET g0 == Marked(map_blocks, HeroCell)
          IN  /\ ~crashed'
              /\ \A c \in Cells :
                    (map_blocks[c] \in Fixed \/ map_blocks'[c] \in Fixed)
                        => map_blocks'[c] = map_blocks[c]
              /\ Cardinality(RocksOf(map_blocks'))
                    = Cardinality(RocksOf(map_blocks))
              /\ \A i \in 1 .. Len(moves') :
                    /\ GridAfter(g0, moves', i - 1)[moves'[i][2]] = GAP
                    /\ moves'[i][2] # HeroCell
              /\ \A i, j \in 1 .. Len(moves') :
                    i # j => moves'[i][2] # moves'[j][2]
              /\ map_blocks'[HeroCell] = GAP]_vars

\* C26's case: a pass has moved two rocks in a grid that holds a tile of the
\* fixed kinds.
C26_TwoRocksMoved ==
    /\ pc = "physics" /\ variant # "none"
    /\ Len(moves) = 2
    /\ \E c \in Cells : map_blocks[c] \in Fixed


\* The displacement of the k-th rock move of the sequence ms.
Displacement(ms, k) == <<ms[k][2][1] - ms[k][1][1], ms[k][2][2] - ms[k][1][2]>>

\* C27: in every physics pass, of rockfall and of update_map alike, no rock
\* moves twice (no move starts from a cell that an earlier move of the pass
\* went to) and every move takes its rock one row down, in the same column or
\* in a column next to it.
C27_OneStepDown ==
    [][pc = "physics" =>
          /\ \A i, j \in 1 .. Len(moves') :
                i < j => moves'[j][1] # moves'[i][2]
          /\ \A i \in 1 .. Len(moves') :
                Displacement(moves', i) \in {<<0, 1>>, <<-1, 1>>, <<1, 1>>}
          /\ Len(moves') <= Cardinality(RocksOf(map_blocks))]_vars

\* C27's case: a pass of update_map has rolled a rock to the right and down
\* and has moved another rock as well.
C27_RolledRight ==
    /\ pc = "physics" /\ variant = "wincoll"
    /\ Len(moves) = 2
    /\ \E i \in 1 .. 2 : Displacement(moves, i) = <<1, 1>>


\* Before a pass the rock at c rests on a Rock, Key, Diamond or Blob, the
\* cells to its left, below-left, right and below-right are Empty and free of
\* the hero, and no other rock lies in its row within two columns.
FreeToRoll(c) ==
    /\ map_blocks[c] = ROCK
    /\ TileAt(Below(c)) \in {ROCK, KEY, DIAMOND, BLOB}
    /\ \A dx \in {-1, 1} : Open(Beside(c, dx)) /\ Open(Below(Beside(c, dx)))
    /\ \A dx \in {-2, 2} : TileAt(Beside(c, dx)) # ROCK

\* C28, as the specification states it: every rock that is free to roll to
\* both sides before a pass ends the pass in its below-left cell.
C28_RollsLeft ==
    [][pc = "physics" =>
          \A c \in Cells :
              FreeToRoll(c) =>
                  /\ Moved(c, Below(Beside(c, -1)))'
                  /\ map_blocks'[Below(Beside(c, -1))] = ROCK]_vars

\* C28, as the code has it: a rock that is free to roll to both sides before a
\* pass, and whose support stays where it is during the pass, ends the pass
\* in its below-left cell; a rock whose support is a rock that moves in the
\* pass falls straight into the cell the support left; and a rock rolls right
\* only when, at that moment, the cell to its left or the cell below-left is
\* not Empty.
C28_RollSidePreference ==
    [][pc = "physics" =>
          LET g0 == Marked(map_blocks, HeroCell)
          IN  /\ \A c \in Cells :
                    FreeToRoll(c) =>
                        IF \E i \in 1 .. Len(moves') : moves'[i][1] = Below(c)
                        THEN /\ Moved(c, Below(c))'
                             /\ map_blocks'[Below(c)] = ROCK
                        ELSE /\ Moved(c, Below(Beside(c, -1)))'
                             /\ map_blocks'[Below(Beside(c, -1))] = ROCK
              /\ \A i \in 1 .. Len(moves') :
                    Displacement(moves', i) = <<1, 1>> =>
                        LET g == GridAfter(g0, moves', i - 1)
                            a == moves'[i][1]
                        IN  ~(/\ At(g, Beside(a, -1)) = GAP
                              /\ At(g, Below(Beside(a, -1))) = GAP)]_vars

\* C28's case: a pass of rockfall has rolled a rock off a Key to the left,
\* and the cells to the right of where it was and below-right are Empty.
C28_RolledLeft ==
    /\ pc = "physics" /\ variant = "game"
    /\ \E c \in Cells :
          /\ TileAt(Below(c)) = KEY
          /\ Moved(c, Below(Beside(c, -1)))
          /\ Open(Beside(c, 1)) /\ Open(Below(Beside(c, 1)))


\* The Game record with the diamonds counter at zero.
Cleared == [Self EXCEPT !.diamonds = 0]

\* C29: in run, the tick whose move brings the diamonds counter to zero runs
\* no physics pass and leaves the death flag clear; while the counter is zero
\* the death flag is clear and the only steps are the end of the life and the
\* end of the level, which advances the level index; and update_map, applied
\* to any grid and hero of play with the counter at zero, leaves the death
\* flag clear.
C29_ClearedBeforeDeath ==
    /\ [][(TickStep /\ moved'.done /\ diamonds' = 0) =>
            ~turn'.passed /\ ~dead']_vars
    /\ []((diamonds = 0 /\ pc \in {"ticks", "lives"} /\ ~crashed) => ~dead)
    /\ [][(diamonds = 0 /\ pc = "ticks" /\ ~crashed) =>
            pc' = "lives" /\ level' = level]_vars
    /\ [][(diamonds = 0 /\ pc = "lives" /\ ~crashed) =>
            pc' = "levels" /\ level' = level + 1 /\ ~dead']_vars
    /\ []((pc = "ticks" /\ ~crashed /\ ~dead) => ~update_map(Cleared).dead)

\* C29's case: a rock is about to land above the hero, so that update_map
\* sets the death flag with diamonds remaining, and moves the same rock with
\* the counter at zero.
C29_RockOverHero ==
    /\ pc = "ticks" /\ ~crashed /\ ~dead /\ diamonds > 0
    /\ update_map(Self).dead
    /\ update_map(Cleared).moves # <<>>

\* C29's other case: a move has taken the last Diamond of a level that holds
\* a rock.
C29_LastDiamond ==
    /\ pc = "ticks" /\ ~crashed /\ diamonds = 0
    /\ moved.done /\ moved.block = DIAMOND


\* C30: at every tick boundary of run's loop, whatever deaths, reloads,
\* restarts and level changes came before, the slide sound plays if and only
\* if the falling flag is TRUE.
C30_SoundIffFalling ==
    (pc = "ticks" /\ ~crashed) => (SLIDE_SOUND <=> falling)


\* C31: at every tick boundary of run's loop the hero's position is inside
\* the grid, and the cell at the hero's integer position holds no Rock,
\* Brick, Safe or Blob.
C31_HeroOnEnterable ==
    (pc = "ticks" /\ ~crashed) =>
        /\ HeroCell \in Cells
        /\ map_blocks[HeroCell] \notin {ROCK, BRICK, SAFE, BLOB}


\* A position with whole coordinates: the hero stands on a cell, not between
\* two.
Whole(pos) == pos[1] % subframes = 0 /\ pos[2] % subframes = 0

\* The inputs of a direction alone and of one of the l, s, r and q keys alone.
Keys ==
    {inp \in Inputs :
        LET held == Cardinality({k \in {"l", "s", "r", "q"} : inp[k]})
        IN  held = 0 \/ (held = 1 /\ inp.dx = 0 /\ inp.dy = 0)}

\* C32: in run, a tick made while the hero's velocity is not zero does the
\* same whatever keys are held, so it runs no direction, Save, Load, Restart
\* or Quit; a tick that ran Save, Load or Restart started with the velocity
\* zero and the hero on a whole cell; whenever the velocity is zero at a tick
\* boundary the hero is on a whole cell; and start_level saves with the hero
\* on a whole cell.
C32_SampledAtTurnBoundaries ==
    /\ []((pc = "ticks" /\ ~crashed /\ velocity # Vector2(0, 0)) =>
            \A inp \in Keys :
                tick(Self, subframe, inp) = tick(Self, subframe, NoInput))
    /\ [][(TickStep /\ cmds' # {}) =>
            velocity = Vector2(0, 0) /\ Whole(position)]_vars
    /\ []((pc = "ticks" /\ ~crashed /\ velocity = Vector2(0, 0)) =>
            Whole(position))
    /\ [][(pc = "levels" /\ pc' = "lives") =>
            Whole(position') /\ velocity' = Vector2(0, 0) /\ saved'.exists]_vars

\* C32's case: a tick has run Save at a turn boundary and started a move, and
\* the hero is now between two cells with the move under way.
C32_SavedThenMoving ==
    /\ pc = "ticks" /\ ~crashed
    /\ cmds = {"save"}
    /\ velocity # Vector2(0, 0) /\ ~Whole(position)
    /\ saved.exists


\* ------------------------------------------------ passes repeated for ever
\* rockfall and update_map as functions of the grid: a grid of at most two
\* rocks and at most one Brick, Diamond or Safe is set up in three steps, the hero
\* on an empty cell, and from it one of the two programs makes pass after
\* pass, whatever the death flag says, and nothing else acts.  The pass is made every
\* subframes ticks of the loop, as in run, and the loop never stops.

InitSettle ==
    /\ map_blocks = [c \in Cells |-> GAP]
    /\ position = Vector2(0, 0)
    /\ velocity = Vector2(0, 0)
    /\ diamonds = 0
    /\ dead = FALSE
    /\ falling = FALSE
    /\ SLIDE_SOUND = FALSE
    /\ level = 1
    /\ quit = FALSE
    /\ saved = NoSave
    /\ crashed = FALSE
    /\ subframe = 0
    /\ pc = "grid"
    /\ moves = <<>>
    /\ pass_hero = <<0, 0>>
    /\ moved = NoMove
    /\ cmds = {}
    /\ commands = 0
    /\ variant = "none"
    /\ turn = [passed |-> FALSE, since_move |-> TRUE]
    /\ got = NoGet
    /\ levels_path = LevelsFound

\* Setting up the grid: at most two rocks.
SetRocks ==
    /\ pc = "grid"
    /\ \E r1, r2 \in Cells \cup {NoCell} :
          map_blocks' = PhysicsGrid(r1, r2, NoCell, GAP)
    /\ pc' = "tile"
    /\ UNCHANGED <<position, velocity, diamonds, dead, falling, SLIDE_SOUND,
                   level, quit, saved, crashed, subframe, history>>

\* Setting up the grid: a Brick, a Diamond or a Safe on a cell, unless a rock
\* is there.
SetOther ==
    /\ pc = "tile"
    /\ \E oc \in Cells, ok \in {BRICK, DIAMOND, SAFE} :
          map_blocks' = [map_blocks EXCEPT ![oc] = IF @ = ROCK THEN @ ELSE ok]
    /\ pc' = "hero"
    /\ UNCHANGED <<position, velocity, diamonds, dead, falling, SLIDE_SOUND,
                   level, quit, saved, crashed, subframe, history>>

\* Setting up the grid: the hero is put on an empty cell and the diamonds
\* are counted; the passes start from here.
SetHero ==
    /\ pc = "hero"
    /\ \E h \in Cells :
          /\ map_blocks[h] = GAP
          /\ position' = Vector2(h[1], h[2])
          /\ pass_hero' = h
    /\ diamonds' = Treasure(map_blocks)
    /\ pc' = "physics"
    /\ UNCHANGED <<map_blocks, velocity, dead, falling, SLIDE_SOUND, level, quit,
                   saved, crashed, subframe, moves, moved, cmds, commands,
                   variant, turn, got, levels_path>>

\* The state after a pass of program v that took Self to t, made in the tick
\* that wraps the subframe.
AfterSettle(t, v) ==
    /\ map_blocks' = t.map_blocks
    /\ dead' = t.dead
    /\ falling' = t.falling
    /\ SLIDE_SOUND' = t.SLIDE_SOUND
    /\ crashed' = t.crashed
    /\ moves' = t.moves
    /\ pass_hero' = Cell(position)
    /\ variant' = v
    /\ subframe' = 0
    /\ UNCHANGED <<position, velocity, diamonds, level, quit, saved, pc, moved,
                   cmds, commands, turn, got, levels_path>>

\* A tick of the loop that makes no pass: the subframe goes up.
SettleTick ==
    /\ pc = "physics"
    /\ subframe # subframes - 1
    /\ subframe' = subframe + 1
    /\ UNCHANGED <<map_blocks, position, velocity, diamonds, dead, falling,
                   SLIDE_SOUND, level, quit, saved, crashed, pc, history>>

\* game.py: the tick of the last subframe makes a pass of rockfall.
SettleGame ==
    /\ pc = "physics"
    /\ subframe = subframes - 1
    /\ variant \in {"none", "game"}
    /\ AfterSettle(physics(Self), "game")

\* wincoll_game.py: the same tick makes an update_map.
SettleWincoll ==
    /\ pc = "physics"
    /\ subframe = subframes - 1
    /\ variant \in {"none", "wincoll"}
    /\ AfterSettle(update_map(Self), "wincoll")

SetUp == SetRocks \/ SetOther \/ SetHero

NextSettle ==
    \/ SetRocks \/ SetOther \/ SetHero
    \/ SettleTick \/ SettleGame \/ SettleWincoll

\* The loop goes round: line 444 of run, at the end of every tick.
Round == pc = "physics" /\ subframe' = (subframe + 1) % subframes

\* The setting up ends, and the loop keeps going round.
SpecSettle ==
    InitSettle /\ [][NextSettle]_vars /\ WF_vars(SetUp) /\ WF_subframe(Round)

\* The latest pass moved no rock, the falling flag is false, and a further
\* pass of the same program moves no rock and leaves grid and flag as they are.
Settled ==
    /\ variant # "none"
    /\ moves = <<>>
    /\ ~falling
    /\ LET again == Pass(Self, variant)
       IN  /\ again.moves = <<>>
           /\ again.map_blocks = map_blocks
           /\ ~again.falling

\* C33: under repeated passes with nothing else acting, a pass that moves no
\* rock leaves the grid as it was and is followed only by passes that move no
\* rock; the pass after the last fall clears the falling flag; and every
\* behaviour reaches a state from which on no rock moves, the grid stays as
\* it is and the falling flag is false.
C33_Settling ==
    /\ [][(pc = "physics" /\ subframe = subframes - 1 /\ moves' = <<>>) =>
            /\ map_blocks' = map_blocks
            /\ Pass(Self', variant').moves = <<>>
            /\ Pass(Self', variant').map_blocks = map_blocks'
            /\ ~Pass(Self', variant').falling]_vars
    /\ [][(moves = <<>> /\ variant # "none") => ~falling']_vars
    /\ <>[]Settled

\* C33's case: the passes have gone on after a rock killed the hero, and the
\* grid has settled.
C33_SettledAfterFall == pc = "physics" /\ dead /\ Settled


\* The cell of level n's layout that holds the hero.
StartCell(n) == CHOOSE c \in Cells : LevelData(n)[c] = WIN

\* The Game record s is as a restart of level n leaves it: the level's
\* layout with the hero taken off its start cell, the hero there and at rest,
\* the death flag clear and the diamonds counted from the layout.
Restarted(s, n) ==
    /\ s.map_blocks = Around(LevelData(n), StartCell(n))
    /\ s.position = Vector2(StartCell(n)[1], StartCell(n)[2])
    /\ s.velocity = Vector2(0, 0)
    /\ ~s.dead
    /\ s.diamonds = Treasure(LevelData(n))

\* C34: restart_level, applied at any turn boundary of run, leaves the
\* level's initial layout, the hero on the start cell, the death flag clear
\* and the diamonds recounted, and leaves the level and the saved position as
\* they were, so that load_position gives after it what it gave before it; a
\* tick that ran Restart and no Save leaves the saved position unchanged; and
\* the saved position changes only in start_level and in a tick that ran Save.
C34_RestartKeepsSave ==
    /\ []((pc = "ticks" /\ ~crashed /\ velocity = Vector2(0, 0)) =>
            LET r == restart_level(Self)
                a == load_position(r)
                b == load_position(Self)
            IN  /\ Restarted(r, level)
                /\ r.level = level /\ r.saved = saved /\ ~r.crashed
                /\ a.map_blocks = b.map_blocks
                /\ a.position = b.position
                /\ a.diamonds = b.diamonds)
    /\ [][(TickStep /\ "restart" \in cmds' /\ "save" \notin cmds') =>
            /\ saved' = saved
            /\ ~turn'.passed => Restarted(Self', level)]_vars
    /\ [][saved' # saved =>
            \/ pc = "levels" /\ pc' = "lives"
            \/ TickStep /\ "save" \in cmds']_vars

\* C34's case: a tick has run Restart, and the saved position is still the
\* one start_level wrote.
C34_RestartedInPlay ==
    /\ pc = "ticks" /\ ~crashed
    /\ cmds = {"restart"}
    /\ Restarted(Self, level)
    /\ turn.since_move /\ subframe # 0
    /\ saved.exists /\ saved.data = LevelData(level)


\* ------------------------------------------- wincoll_game.py, life by life
\* From every grid that the set-up steps make: update_map passes while the
\* hero lives, stop_play at any moment of play, and init_game after it for
\* the next life.

StopPlay ==
    /\ pc = "physics"
    /\ variant \in {"none", "wincoll"}
    /\ Becomes(stop_play(Self))
    /\ pc' = "stopped"
    /\ UNCHANGED <<subframe, history>>

InitGame ==
    /\ pc = "stopped"
    /\ Becomes(init_game(Self))
    /\ pc' = "physics"
    /\ UNCHANGED <<subframe, history>>

NextLife ==
    \/ SetRocks \/ SetOther \/ SetHero
    \/ PassWincoll \/ StopPlay \/ InitGame

SpecLife == InitSettle /\ [][NextLife]_vars

\* C35: after stop_play the falling flag and the death flag are false and
\* the rock sound is off; after init_game the death flag is false and the
\* diamonds counter is the number of Diamond and Safe tiles of the grid; so a
\* life that init_game starts after stop_play starts alive, not falling and
\* with the counter counted afresh.
C35_LifeStartsClean ==
    /\ [][pc' = "stopped" => ~falling' /\ ~dead' /\ ~SLIDE_SOUND']_vars
    /\ [][(pc = "stopped" /\ pc' = "physics") =>
            /\ ~dead' /\ ~falling'
            /\ diamonds' = Treasure(map_blocks')
            /\ map_blocks' = map_blocks]_vars

\* C35's case: a pass of update_map has dropped a rock onto the cell above
\* the hero with diamonds remaining, which kills the hero and sets the falling
\* flag, and stop_play has run.
C35_StoppedAfterDeath ==
    /\ pc = "stopped"
    /\ diamonds > 0
    /\ Moved(Above(Above(pass_hero)), Above(pass_hero))


\* --------------------------------------- instructions.py, the start level
\* The program from its start to the level that instructions returns: the
\* levels location holds up to MaxLevelFiles level files, init_levels counts
\* them, and instructions reads key presses until space is among them.  The
\* local level of instructions is held in level, and num_levels() is the
\* number of files that init_levels found.

\* How many level files the levels location may hold.
MaxLevelFiles == 12

\* The KEYDOWN events that instructions tells apart: q, space, the keys that
\* move back (z, left, slash, down), the keys that move forward (x, right,
\* quote, up), the digits, and any other key.
KeyDown ==
    [key : {"q", "space", "back", "forward", "other"}, digit : {0}]
        \cup [key : {"digit"}, digit : 0 .. 9]

Min(a, b) == IF a <= b THEN a ELSE b

Max(a, b) == IF a >= b THEN a ELSE b

\* The loop body of instructions for one event, had a digit been taken as typed.
instructions_key_unclamped(lv, n, event) ==
    IF event.key = "back" THEN Max(1, lv - 1)
    ELSE IF event.key = "forward" THEN Min(n, lv + 1)
    ELSE IF event.key = "digit" THEN lv * 10 + event.digit
    ELSE IF event.key = "space" THEN lv
    ELSE 0

\* The loop body of instructions (lines 108-125) for one event other than q:
\* the new value of level, with n levels.
instructions_key(lv, n, event) ==
    IF event.key = "back" THEN Max(1, lv - 1)
    ELSE IF event.key = "forward" THEN Min(n, lv + 1)
    ELSE IF event.key = "digit" THEN Min(n, lv * 10 + event.digit)
    ELSE IF event.key = "space" THEN lv
    ELSE 0

\* Line 127: what instructions returns.
instructions_return(lv, n) == Max(Min(lv, n), 1)

InitInstructions ==
    /\ map_blocks = [c \in Cells |-> GAP]
    /\ position = Vector2(0, 0)
    /\ velocity = Vector2(0, 0)
    /\ diamonds = 0
    /\ dead = FALSE
    /\ falling = FALSE
    /\ SLIDE_SOUND = FALSE
    /\ level = 0
    /\ quit = FALSE
    /\ saved = NoSave
    /\ crashed = FALSE
    /\ subframe = 0
    /\ pc = "start"
    /\ moves = <<>>
    /\ pass_hero = <<0, 0>>
    /\ moved = NoMove
    /\ cmds = {}
    /\ commands = 0
    /\ variant = "none"
    /\ turn = [passed |-> FALSE, since_move |-> TRUE]
    /\ got = NoGet
    /\ levels_path \in
          {[readable |-> FALSE, files |-> 0]}
              \cup {[readable |-> TRUE, files |-> n] : n \in 0 .. MaxLevelFiles}

\* main calls instructions: the selection starts at 0.
Instructions ==
    /\ pc \in {"main", "returned"}
    /\ level' = 0
    /\ pc' = "instructions"
    /\ UNCHANGED <<map_blocks, position, velocity, diamonds, dead, falling,
                   SLIDE_SOUND, quit, saved, crashed, subframe, history>>

\* One KEYDOWN event of the loop: q leaves the program, space sets play, and
\* the events that follow space in the same batch are handled as well.
KeyEvent ==
    /\ pc \in {"instructions", "play"}
    /\ \E event \in KeyDown :
          IF event.key = "q"
          THEN pc' = "quit" /\ level' = level
          ELSE /\ level' = instructions_key(level, levels_path.files, event)
               /\ pc' = IF event.key = "space" THEN "play" ELSE pc
    /\ UNCHANGED <<map_blocks, position, velocity, diamonds, dead, falling,
                   SLIDE_SOUND, quit, saved, crashed, subframe, history>>

\* The batch of events is done with play set: instructions returns.
Return ==
    /\ pc = "play"
    /\ level' = instructions_return(level, levels_path.files)
    /\ pc' = "returned"
    /\ UNCHANGED <<map_blocks, position, velocity, diamonds, dead, falling,
                   SLIDE_SOUND, quit, saved, crashed, subframe, history>>

NextInstructions == InitLevels \/ Instructions \/ KeyEvent \/ Return

SpecInstructions == InitInstructions /\ [][NextInstructions]_vars

\* C36: while instructions reads keys its selection is between 0 and the
\* number of levels, after any key; and the level it returns is between 1
\* and the number of levels.
C36_LevelSelection ==
    /\ pc \in {"instructions", "play"} =>
          level \in 0 .. levels_path.files
    /\ pc = "returned" => level \in 1 .. levels_path.files

\* C36's case: digits have taken the selection to the last of more than ten
\* levels, and instructions has returned it.
C36_TwoDigits ==
    /\ pc = "returned"
    /\ level = levels_path.files
    /\ level >= 10

====
